---- MODULE Spec2Model ----
(***************************************************************************)
(* Model of the cursor-based decoder of consume.go (package phpserialize). *)
(*                                                                         *)
(* A buffer is a sequence of bytes: an ASCII byte is the one-character     *)
(* string of it, a byte outside ASCII is the string of its two hexadecimal *)
(* digits ("C3").  Go's 0-based index i is position i + 1 of the sequence. *)
(* A Go run-time panic (index or slice out of range, a reflect call on a   *)
(* value of the wrong kind) is the outcome "panic": the call does not      *)
(* return.                                                                 *)
(***************************************************************************)
EXTENDS Integers, Sequences, FiniteSets, TLC

\* Bounds of the generated inputs.
MaxPairs == 2
MaxDepth == 2

(***************************************************************************)
(* Bytes and slices                                                        *)
(***************************************************************************)
\* data[i]
At(data, i) == data[i + 1]

\* data[lo:hi], for 0 <= lo <= hi <= len(data)
Slice(data, lo, hi) == SubSeq(data, lo + 1, hi)

\* Go's test on a slice expression s[lo:hi]
SliceInRange(s, lo, hi) == 0 <= lo /\ lo <= hi /\ hi <= Len(s)

(***************************************************************************)
(* Decoded values (interface{}): nil, bool, int64, float64, string.        *)
(* One record shape for all kinds: n is the integer (1/0 for a boolean),   *)
(* s the bytes of a string; the fields of a float64 are given with         *)
(* ParseFloat, which makes them.                                           *)
(***************************************************************************)
NilV == [k |-> "nil", n |-> 0, e |-> 0, s |-> <<>>]
BoolV(b) == [k |-> "bool", n |-> IF b THEN 1 ELSE 0, e |-> 0, s |-> <<>>]
IntV(n) == [k |-> "int", n |-> n, e |-> 0, s |-> <<>>]
StrV(s) == [k |-> "string", n |-> 0, e |-> 0, s |-> s]

(***************************************************************************)
(* Errors and results.  A consumer returns (value, newOffset, error).      *)
(***************************************************************************)
NoErr == [msg |-> "nil", tail |-> <<>>]
Err(msg) == [msg |-> msg, tail |-> <<>>]
ErrTail(msg, tail) == [msg |-> msg, tail |-> tail]

Ok(v, off) == [st |-> "ok", v |-> v, off |-> off, err |-> NoErr]
Failed(v, e) == [st |-> "err", v |-> v, off |-> -1, err |-> e]
Panicked(msg) == [st |-> "panic", v |-> NilV, off |-> 0, err |-> Err(msg)]

(***************************************************************************)
(* strconv                                                                 *)
(***************************************************************************)
Digits == {"0", "1", "2", "3", "4", "5", "6", "7", "8", "9"}

DigitVal(c) ==
    CASE c = "0" -> 0 [] c = "1" -> 1 [] c = "2" -> 2 [] c = "3" -> 3
      [] c = "4" -> 4 [] c = "5" -> 5 [] c = "6" -> 6 [] c = "7" -> 7
      [] c = "8" -> 8 [] c = "9" -> 9

IsDigits(s) == \A i \in 1..Len(s) : s[i] \in Digits

RECURSIVE DigitsVal(_)
DigitsVal(s) ==
    IF Len(s) = 0 THEN 0
    ELSE 10 * DigitsVal(SubSeq(s, 1, Len(s) - 1)) + DigitVal(s[Len(s)])

DigitChar(d) ==
    CASE d = 0 -> "0" [] d = 1 -> "1" [] d = 2 -> "2" [] d = 3 -> "3"
      [] d = 4 -> "4" [] d = 5 -> "5" [] d = 6 -> "6" [] d = 7 -> "7"
      [] d = 8 -> "8" [] d = 9 -> "9"

\* The decimal digits of n >= 0
RECURSIVE NatDigits(_)
NatDigits(n) ==
    IF n < 10 THEN <<DigitChar(n)>> ELSE NatDigits(n \div 10) \o <<DigitChar(n % 10)>>

\* lower(c) of package strconv, on the letters its parsers look for
LowerOf(c) ==
    CASE c = "A" -> "a" [] c = "B" -> "b" [] c = "C" -> "c" [] c = "D" -> "d"
      [] c = "E" -> "e" [] c = "F" -> "f" [] c = "I" -> "i" [] c = "N" -> "n"
      [] c = "O" -> "o" [] c = "P" -> "p" [] c = "T" -> "t" [] c = "X" -> "x"
      [] c = "Y" -> "y" [] OTHER -> c

LowerSeq(s) == [i \in 1..Len(s) |-> LowerOf(s[i])]

HexLetters == {"a", "b", "c", "d", "e", "f"}

\* The value of a hexadecimal digit
HexVal(c) ==
    CASE c \in Digits -> DigitVal(c)
      [] LowerOf(c) = "a" -> 10 [] LowerOf(c) = "b" -> 11 [] LowerOf(c) = "c" -> 12
      [] LowerOf(c) = "d" -> 13 [] LowerOf(c) = "e" -> 14 [] LowerOf(c) = "f" -> 15

\* The least element of a non-empty set of integers
MinOf(S) == CHOOSE i \in S : \A j \in S : i <= j

\* s without its "_" and "." bytes
OnlyDigits(s) == SelectSeq(s, LAMBDA c : c # "_" /\ c # ".")

\* ds without its leading "0" digits
StripZeros(ds) ==
    LET nz == { i \in 1..Len(ds) : ds[i] # "0" }
    IN  IF nz = {} THEN <<>> ELSE SubSeq(ds, MinOf(nz), Len(ds))

\* The float64 values ParseFloat returns.  A finite value other than zero is
\* +-q * 2^x in the one form a float64 has: 2^52 <= q < 2^53 and
\* -1074 <= x <= 971 (normal), or 0 < q < 2^52 and x = -1074 (subnormal).
\* s is the decimal digits of q with the sign, n is x.  Zero of either sign
\* is the one value FloatZero.
FloatZero == [k |-> "float", n |-> 0, e |-> 0, s |-> <<"0">>]
FloatV(neg, q, x) ==
    [k |-> "float", n |-> x, e |-> 0, s |-> (IF neg THEN <<"-">> ELSE <<>>) \o q]
FloatInf(neg) ==
    [k |-> "float", n |-> 0, e |-> 0, s |-> (IF neg THEN <<"-">> ELSE <<>>) \o <<"inf">>]
FloatNaN == [k |-> "float", n |-> 0, e |-> 0, s |-> <<"nan">>]

(***************************************************************************)
(* Natural numbers of any size, for the exact rounding of strconv: a       *)
(* numeral is the sequence of its decimal digits 0..9, the most            *)
(* significant first, with no leading zero; <<>> is 0.                     *)
(***************************************************************************)
Numeral(ds) == [i \in 1..Len(ds) |-> DigitVal(ds[i])] \o <<>>
NumeralDigits(a) == [i \in 1..Len(a) |-> DigitChar(a[i])] \o <<>>

IsOdd(a) == a # <<>> /\ a[Len(a)] % 2 = 1

\* a < b
Less(a, b) ==
    \/ Len(a) < Len(b)
    \/ /\ Len(a) = Len(b)
       /\ \E i \in 1..Len(a) : a[i] < b[i] /\ \A j \in 1..(i - 1) : a[j] = b[j]

\* 2 * a: the carry into a digit is 1 exactly when the next digit is >= 5
Double(a) ==
    LET r == [i \in 1..Len(a) |->
                (2 * a[i] + (IF i < Len(a) /\ a[i + 1] >= 5 THEN 1 ELSE 0)) % 10]
    IN  IF a = <<>> THEN <<>> ELSE IF a[1] >= 5 THEN <<1>> \o r ELSE r \o <<>>

\* a \div 2: the remainder carried into a digit is that of the digit before
Halve(a) ==
    LET r == [i \in 1..Len(a) |->
                (a[i] + (IF i > 1 /\ a[i - 1] % 2 = 1 THEN 10 ELSE 0)) \div 2]
    IN  IF a = <<>> THEN <<>> ELSE IF a[1] < 2 THEN SubSeq(r, 2, Len(a)) ELSE r \o <<>>

\* 5 * a = (10 * a) \div 2
Times5(a) == IF a = <<>> THEN <<>> ELSE Halve(a \o <<0>>)

\* a \div 5 = (2 * a) \div 10
Fifth(a) == SubSeq(Double(a), 1, Len(Double(a)) - 1)

\* a + 1
Increment(a) ==
    LET low == { i \in 1..Len(a) : a[i] # 9 }
        j == CHOOSE i \in low : \A l \in low : l <= i     \* the last digit below 9
    IN  IF low = {} THEN <<1>> \o [i \in 1..Len(a) |-> 0]
        ELSE [i \in 1..Len(a) |-> IF i < j THEN a[i] ELSE IF i = j THEN a[i] + 1 ELSE 0]

\* A numeral with the flag that no division so far left a remainder
Exact(a) == [d |-> a, x |-> TRUE]

\* One step on such a pair: times 2, times 5, floor of the half or the fifth
Step(op, p) ==
    CASE op = "double" -> [d |-> Double(p.d), x |-> p.x]
      [] op = "times5" -> [d |-> Times5(p.d), x |-> p.x]
      [] op = "halve" -> [d |-> Halve(p.d), x |-> p.x /\ ~IsOdd(p.d)]
      [] op = "fifth" -> [d |-> Fifth(p.d),
                          x |-> p.x /\ (p.d = <<>> \/ p.d[Len(p.d)] \in {0, 5})]

\* The element of a set of one element: { F(v) : v \in {e} } is F of the
\* value of e, computed once
Only(S) == CHOOSE v \in S : TRUE

\* n steps, by halves of n
RECURSIVE Repeat(_, _, _)
Repeat(op, p, n) ==
    IF n <= 0 \/ p.d = <<>> THEN p
    ELSE IF n = 1 THEN Step(op, p)
    ELSE Only({ Repeat(op, h, n - n \div 2) : h \in {Repeat(op, p, n \div 2)} })

TwoTo52 == <<4, 5, 0, 3, 5, 9, 9, 6, 2, 7, 3, 7, 0, 4, 9, 6>>
TwoTo53 == <<9, 0, 0, 7, 1, 9, 9, 2, 5, 4, 7, 4, 0, 9, 9, 2>>
TwoTo54 == <<1, 8, 0, 1, 4, 3, 9, 8, 5, 0, 9, 4, 8, 1, 9, 8, 4>>

\* The pair halved, x counting the halvings, until it is below 2^54
RECURSIVE Narrow(_, _)
Narrow(p, x) ==
    IF Less(p.d, TwoTo54) THEN [p |-> p, x |-> x]
    ELSE Only({ Narrow(h, x + 1) : h \in {Step("halve", p)} })

\* The float64 +-r * 2^y for r <= 2^53, after the rounding: 2^53 is carried
\* into the exponent; not ok above the largest exponent (ErrRange)
Rounded(neg, r, y) ==
    IF r = <<>> THEN [ok |-> TRUE, v |-> FloatZero]
    ELSE IF r = TwoTo53
    THEN (IF y + 1 > 971 THEN [ok |-> FALSE, v |-> FloatInf(neg)]
          ELSE [ok |-> TRUE, v |-> FloatV(neg, NumeralDigits(TwoTo52), y + 1)])
    ELSE IF y > 971 THEN [ok |-> FALSE, v |-> FloatInf(neg)]
    ELSE [ok |-> TRUE, v |-> FloatV(neg, NumeralDigits(r), y)]

\* w of 54 bits or fewer, the last the round bit, rounded to its upper bits:
\* up when the round bit is set and a bit below it or the bit above it is
RoundHalf(neg, w, x, exact) ==
    Only({ Rounded(neg, r, x + 1) :
             r \in { IF IsOdd(w) /\ (~exact \/ IsOdd(q)) THEN Increment(q) ELSE q :
                       q \in {Halve(w)} } })

\* The float64 nearest to +-t * 2^x, ties to the even one, for t >= 2^53 or
\* x = -1075; when not exact, the true value lies strictly between t * 2^x
\* and (t + 1) * 2^x.  Not ok: it rounds to an infinity (ErrRange).
RoundBits(neg, t, x, exact) ==
    Only({ RoundHalf(neg, w.p.d, w.x, w.p.x) :
             w \in {Narrow([d |-> t, x |-> exact], x)} })

\* The exponent digits accumulated as readFloat does: e = e*10 + digit
\* while e < 10000
RECURSIVE ExpVal(_, _, _)
ExpVal(ds, i, e) ==
    IF i > Len(ds) THEN e
    ELSE ExpVal(ds, i + 1, IF e < 10000 THEN e * 10 + DigitVal(ds[i]) ELSE e)

\* 0.ds < 0.ts as decimal fractions (digit strings, compared digit by digit)
FracLess(ds, ts) ==
    LET w == IF Len(ds) > Len(ts) THEN Len(ds) ELSE Len(ts)
        D(i) == IF i <= Len(ds) THEN DigitVal(ds[i]) ELSE 0
        T(i) == IF i <= Len(ts) THEN DigitVal(ts[i]) ELSE 0
    IN  \E i \in 1..w : D(i) < T(i) /\ \A j \in 1..(i - 1) : D(j) = T(j)

\* The digits of 2^63
MaxInt64Digits ==
    <<"9", "2", "2", "3", "3", "7", "2", "0", "3", "6",
      "8", "5", "4", "7", "7", "5", "8", "0", "8">>

\* The digit string ds (no leading zero), negated when neg, is an int64
InInt64(neg, ds) ==
    \/ Len(ds) < Len(MaxInt64Digits)
    \/ /\ Len(ds) = Len(MaxInt64Digits)
       /\ FracLess(ds, MaxInt64Digits) \/ (neg /\ ds = MaxInt64Digits)

\* strconv.Atoi: an optional sign, then one or more decimal digits; a range
\* error when the number is not an int64 (above 2^63 - 1, below -2^63).
Atoi(s) ==
    LET signed == Len(s) > 0 /\ s[1] \in {"-", "+"}
        neg == Len(s) > 0 /\ s[1] = "-"
        body == IF signed THEN Tail(s) ELSE s
    IN  IF /\ Len(body) > 0
           /\ IsDigits(body)
           /\ \E ds \in {StripZeros(body)} : InInt64(neg, ds)
        THEN [ok |-> TRUE, n |-> IF neg THEN 0 - DigitsVal(body) ELSE DigitsVal(body)]
        ELSE [ok |-> FALSE, n |-> 0]

\* The decimal ds * 10^x (ds not empty) scaled by 2^(-y) to an integer, with
\* the flag that nothing was cut off: first times 5^x and 2^(x - y) where
\* these are whole, then the floor of the division by the others
Scaled(ds, x, y) ==
    Only({ Repeat("halve", c, y - x) :
             c \in { Repeat("fifth", b, 0 - x) :
                       b \in { Repeat("double", a, x - y) :
                                 a \in {Repeat("times5", Exact(Numeral(ds)), x)} } } })

\* The float64 of the decimal +-ds * 10^x (ds digits with no leading zero)
DecimalFloat(neg, ds, x) ==
    LET lead == Len(ds) - 1 + x         \* 10^lead <= value < 10^(lead + 1)
        \* 2^low <= value < 2^(low + 6), by 3.321928 < log2(10) < 3.321929
        low == (lead * 3321928) \div 1000000 - 1
        \* the value is scaled by 2^(-y) to an integer of 58 to 63 bits, but
        \* not below the round bit of a subnormal
        y == IF low - 57 < -1075 THEN -1075 ELSE low - 57
    IN  IF ds = <<>> THEN [ok |-> TRUE, v |-> FloatZero]
        ELSE IF lead > 309 THEN [ok |-> FALSE, v |-> FloatInf(neg)]
        ELSE IF lead < -326 THEN [ok |-> TRUE, v |-> FloatZero]
        ELSE Only({ RoundBits(neg, t.d, y, t.x) : t \in {Scaled(ds, x, y)} })

\* a + b: a digit takes a carry when a later digit sum is 10 or more and
\* every digit sum between them is 9
Add(a, b) ==
    LET n == IF Len(a) > Len(b) THEN Len(a) ELSE Len(b)
        sum == [i \in 1..n |->
                  (IF i > n - Len(a) THEN a[i - (n - Len(a))] ELSE 0)
                  + (IF i > n - Len(b) THEN b[i - (n - Len(b))] ELSE 0)] \o <<>>
        carry(i) == \E j \in (i + 1)..n :
                        sum[j] >= 10 /\ \A k \in (i + 1)..(j - 1) : sum[k] = 9
        r == [i \in 1..n |-> (sum[i] + (IF carry(i) THEN 1 ELSE 0)) % 10]
    IN  IF carry(0) THEN <<1>> \o r ELSE r \o <<>>

\* The numeral of the hexadecimal digits hs[lo..hi], by halves
RECURSIVE HexNumeral(_, _, _)
HexNumeral(hs, lo, hi) ==
    IF lo = hi
    THEN LET h == HexVal(hs[lo])
         IN  IF h = 0 THEN <<>> ELSE IF h < 10 THEN <<h>> ELSE <<1, h - 10>>
    ELSE LET mid == (lo + hi) \div 2
         IN  Only({ Add(Repeat("double", Exact(high), 4 * (hi - mid)).d, low) :
                      high \in {HexNumeral(hs, lo, mid)},
                      low \in {HexNumeral(hs, mid + 1, hi)} })

\* The float64 of the hexadecimal +-hs * 2^x (hs with no leading zero), as
\* readFloat and atofHex make it: the first 16 digits are the mantissa, a
\* non-zero digit after them is remembered as the bit below the round bit
HexFloat(neg, hs, x) ==
    LET kept == IF Len(hs) > 16 THEN 16 ELSE Len(hs)
        trunc == \E i \in (kept + 1)..Len(hs) : hs[i] # "0"
        x0 == x + 4 * (Len(hs) - kept)
        first == HexVal(hs[1])
        bits == 4 * kept - (IF first >= 8 THEN 0 ELSE IF first >= 4 THEN 1
                            ELSE IF first >= 2 THEN 2 ELSE 3)
        \* shifted left to 54 bits, but not below the round bit of a subnormal
        room == IF x0 + 1075 < 0 THEN 0 ELSE x0 + 1075
        left == IF bits >= 54 THEN 0 ELSE IF 54 - bits < room THEN 54 - bits ELSE room
    IN  IF hs = <<>> THEN [ok |-> TRUE, v |-> FloatZero]
        ELSE Only({ RoundBits(neg, t.d, IF x0 < -1075 THEN -1075 ELSE x0 - left, t.x) :
                      \* then shifted right to the round bit of a subnormal
                      t \in { Repeat("halve", wide, -1075 - x0) :
                                wide \in { Repeat("double", [d |-> m, x |-> ~trunc], left) :
                                             m \in {HexNumeral(hs, 1, kept)} } } })

\* special: "inf" and "infinity" with an optional sign, "nan" with none,
\* in any case of letters; the whole of s
special(s) ==
    LET signed == Len(s) > 0 /\ s[1] \in {"-", "+"}
        neg == Len(s) > 0 /\ s[1] = "-"
        low == LowerSeq(IF signed THEN Tail(s) ELSE s)
    IN  IF low \in {<<"i", "n", "f">>, <<"i", "n", "f", "i", "n", "i", "t", "y">>}
        THEN [ok |-> TRUE, v |-> FloatInf(neg)]
        ELSE IF ~signed /\ low = <<"n", "a", "n">>
        THEN [ok |-> TRUE, v |-> FloatNaN]
        ELSE [ok |-> FALSE, v |-> FloatZero]

\* underscoreOK: every "_" of s stands between two digits, or between a
\* base prefix and a digit
underscoreOK(s) ==
    LET body == IF Len(s) >= 1 /\ s[1] \in {"-", "+"} THEN Tail(s) ELSE s
        prefix == Len(body) >= 2 /\ body[1] = "0" /\ LowerOf(body[2]) \in {"b", "o", "x"}
        hex == prefix /\ LowerOf(body[2]) = "x"
        from == IF prefix THEN 3 ELSE 1
        IsDigit(i) == /\ i >= from
                      /\ i <= Len(body)
                      /\ \/ body[i] \in Digits
                         \/ hex /\ LowerOf(body[i]) \in HexLetters
    IN  \A i \in from..Len(body) :
            body[i] = "_" => /\ IsDigit(i - 1) \/ (prefix /\ i = 3)
                             /\ IsDigit(i + 1)

\* readFloat, after its scans: the mantissa is s[st+1 .. mEnd-1], the exponent
\* digits (when hasExp) are s[e0 .. eEnd-1]; then the conversion of what was
\* read, when that is the whole of s
floatOfScan(s, neg, hex, st, mEnd, hasExp, eneg, e0, eEnd) ==
    LET bad == [ok |-> FALSE, v |-> FloatZero]
        mant == SubSeq(s, st + 1, mEnd - 1)
        dots == { j \in 1..Len(mant) : mant[j] = "." }
        ip == OnlyDigits(IF dots = {} THEN mant ELSE SubSeq(mant, 1, MinOf(dots) - 1))
        fp == OnlyDigits(IF dots = {} THEN <<>> ELSE SubSeq(mant, MinOf(dots) + 1, Len(mant)))
        eabs == ExpVal(OnlyDigits(SubSeq(s, e0, eEnd - 1)), 1, 0)
        exp == IF ~hasExp THEN 0 ELSE IF eneg THEN 0 - eabs ELSE eabs
        end == IF hasExp THEN eEnd ELSE mEnd      \* the first byte not read
        underscores == \E j \in 1..(end - 1) : s[j] = "_"
    IN  IF Len(ip) + Len(fp) = 0 THEN bad
        ELSE IF hasExp /\ (e0 > Len(s) \/ s[e0] \notin Digits) THEN bad
        ELSE IF hex /\ ~hasExp THEN bad
        ELSE IF underscores /\ ~underscoreOK(SubSeq(s, 1, end - 1)) THEN bad
        ELSE IF end # Len(s) + 1 THEN bad
        ELSE IF hex THEN HexFloat(neg, StripZeros(ip \o fp), exp - 4 * Len(fp))
        ELSE DecimalFloat(neg, StripZeros(ip \o fp), exp - Len(fp))

\* readFloat, the scan of the exponent: e or p (for hex) at s[mEnd], an
\* optional sign, digits and "_"
scanExponent(s, neg, hex, st, mEnd) ==
    LET hasExp == mEnd <= Len(s) /\ LowerOf(s[mEnd]) = (IF hex THEN "p" ELSE "e")
        esigned == mEnd + 1 <= Len(s) /\ s[mEnd + 1] \in {"-", "+"}
        eneg == mEnd + 1 <= Len(s) /\ s[mEnd + 1] = "-"
        e0 == IF esigned THEN mEnd + 2 ELSE mEnd + 1   \* the first exponent digit
        estops == { j \in e0..Len(s) : s[j] \notin Digits \cup {"_"} }
        eEnd == IF estops = {} THEN Len(s) + 1 ELSE MinOf(estops)
    IN  floatOfScan(s, neg, hex, st, mEnd, hasExp, eneg, e0, eEnd)

\* readFloat, the scan of the mantissa from s[st+1]: digits (hexadecimal
\* ones for hex), "_" and one "."
scanMantissa(s, neg, hex, st) ==
    LET MantByte(c) == \/ c \in Digits \cup {"_", "."}
                       \/ hex /\ LowerOf(c) \in HexLetters
        stops == { j \in (st + 1)..Len(s) :
                     \/ ~MantByte(s[j])
                     \/ s[j] = "." /\ \E k \in (st + 1)..(j - 1) : s[k] = "." }
    IN  scanExponent(s, neg, hex, st,
                     IF stops = {} THEN Len(s) + 1 ELSE MinOf(stops))

\* readFloat and the conversion of what it read: sign? digits [. digits]
\* [e sign? digits], or sign? 0x hexdigits [. hexdigits] p sign? digits,
\* with "_" where underscoreOK allows it; the whole of s
readFloat(s) ==
    LET signed == Len(s) > 0 /\ s[1] \in {"-", "+"}
        neg == Len(s) > 0 /\ s[1] = "-"
        i0 == IF signed THEN 1 ELSE 0
        hex == i0 + 2 < Len(s) /\ s[i0 + 1] = "0" /\ LowerOf(s[i0 + 2]) = "x"
    IN  scanMantissa(s, neg, hex, IF hex THEN i0 + 2 ELSE i0)

\* strconv.ParseFloat(s, 64): (ok, value); not ok is a syntax or range error
ParseFloat(s) ==
    IF special(s).ok THEN special(s) ELSE readFloat(s)

(***************************************************************************)
(* Helpers of the package that consume.go calls                            *)
(***************************************************************************)
\* findByte: the first index >= offset holding lookingFor, or -1
findByte(data, lookingFor, offset) ==
    LET found == { i \in offset..(Len(data) - 1) : At(data, i) = lookingFor }
    IN  IF found = {} THEN -1
        ELSE CHOOSE i \in found : \A j \in found : i <= j

\* checkType: the byte at offset exists and is the tag.  The one check serves
\* every consumer, the null literal "N;" included, which has no ":" after
\* its tag: it looks at the tag byte alone.
checkType(data, typeCharacter, offset) ==
    offset < Len(data) /\ At(data, offset) = typeCharacter

\* The bytes outside ASCII of the buffers: the two bytes of a two-byte
\* sequence (U+00E9 in UTF-8)
LeadBytes == {"C3"}
ContinuationBytes == {"A9"}

IsASCII(s) == \A i \in 1..Len(s) : s[i] \notin LeadBytes \cup ContinuationBytes

\* The text form in which a multi-byte sequence is one character (written
\* as the hexadecimal digits of its bytes): shorter than the bytes
Characters(data) ==
    LET merged(i) == /\ i > 1
                     /\ data[i] \in ContinuationBytes
                     /\ data[i - 1] \in LeadBytes
        heads == SelectSeq([i \in 1..Len(data) |-> i], LAMBDA i : ~merged(i))
    IN  [k \in 1..Len(heads) |->
            IF heads[k] < Len(data) /\ merged(heads[k] + 1)
            THEN data[heads[k]] \o data[heads[k] + 1]
            ELSE data[heads[k]]]

\* The encoding the raw-decode helper uses.  It is not given: the text form
\* holds the bytes as they are ("bytes"), or its length differs from the
\* byte length where the buffer holds multi-byte sequences ("characters").
VARIABLE decoder

Decoders == {"bytes", "characters"}

\* DecodePHPString: the raw-decode of the whole buffer into text form.  ASCII
\* bytes are kept; a multi-byte sequence is kept or becomes one character.
DecodePHPString(data) ==
    IF decoder = "characters" THEN Characters(data) ELSE data

\* upperCaseFirstLetter: the key with its first letter in upper case
UpperOf(c) ==
    CASE c = "a" -> "A" [] c = "n" -> "N" [] c = "s" -> "S" [] c = "z" -> "Z"
      [] OTHER -> c

upperCaseFirstLetter(key) ==
    IF Len(key) = 0 THEN key ELSE <<UpperOf(key[1])>> \o Tail(key)

(***************************************************************************)
(* Scalar and text consumers                                               *)
(***************************************************************************)
\* (s, newOffset)
consumeStringUntilByte(data, lookingFor, offset) ==
    LET newOffset == findByte(data, lookingFor, offset)
    IN  IF newOffset < 0 THEN [s |-> <<>>, off |-> -1]
        ELSE [s |-> Slice(data, offset, newOffset), off |-> newOffset]

consumeInt(data, offset) ==
    IF ~checkType(data, "i", offset) THEN Failed(IntV(0), Err("not an integer"))
    ELSE LET r == consumeStringUntilByte(data, ";", offset + 2)
             a == Atoi(r.s)
         IN  IF ~a.ok THEN Failed(IntV(0), Err("strconv"))
             ELSE Ok(IntV(a.n), r.off + 1)

consumeFloat(data, offset) ==
    IF ~checkType(data, "d", offset) THEN Failed(FloatZero, Err("not a float"))
    ELSE LET r == consumeStringUntilByte(data, ";", offset + 2)
             f == ParseFloat(r.s)
         IN  IF ~f.ok THEN Failed(FloatZero, Err("strconv"))
             ELSE Ok(f.v, r.off + 1)

\* (value, newOffset, err), the value an int
consumeIntPart(data, offset) ==
    LET r == consumeStringUntilByte(data, ":", offset)
        a == Atoi(r.s)
    IN  IF ~a.ok THEN Failed(IntV(0), Err("strconv"))
        ELSE Ok(IntV(a.n), r.off + 1)

\* Mutant: the node's trailing ";" is not skipped
consumeStringRealPart_NoSemicolon(data, offset) ==
    LET p == consumeIntPart(data, offset)
        length == p.v.n
        start == p.off + 1
        s == DecodePHPString(data)
    IN  IF p.st # "ok" THEN Failed(StrV(<<>>), p.err)
        ELSE IF ~SliceInRange(s, start, start + length)
             THEN Panicked("slice bounds out of range")
             ELSE Ok(StrV(Slice(s, start, start + length)), start + length + 1)

consumeStringRealPart(data, offset) ==
    LET p == consumeIntPart(data, offset)
        length == p.v.n
        start == p.off + 1
        s == DecodePHPString(data)
    IN  IF p.st # "ok" THEN Failed(StrV(<<>>), p.err)
        ELSE IF ~SliceInRange(s, start, start + length)
             THEN Panicked("slice bounds out of range")
             ELSE Ok(StrV(Slice(s, start, start + length)), start + length + 2)

consumeString(data, offset) ==
    IF ~checkType(data, "s", offset) THEN Failed(StrV(<<>>), Err("not a string"))
    ELSE consumeStringRealPart(data, offset + 2)

consumeNil(data, offset) ==
    IF ~checkType(data, "N", offset) THEN Failed(NilV, Err("not null"))
    ELSE Ok(NilV, offset + 2)

consumeBool(data, offset) ==
    IF ~checkType(data, "b", offset) THEN Failed(BoolV(FALSE), Err("not a boolean"))
    ELSE IF offset + 2 >= Len(data) THEN Panicked("index out of range")
    ELSE Ok(BoolV(At(data, offset + 2) = "1"), offset + 4)

\* Mutant: a tag the switch does not know is skipped as a null
consumeNext_SkipUnknown(data, offset) ==
    IF offset >= Len(data) THEN Failed(NilV, Err("corrupt"))
    ELSE CASE At(data, offset) = "b" -> consumeBool(data, offset)
           [] At(data, offset) = "d" -> consumeFloat(data, offset)
           [] At(data, offset) = "i" -> consumeInt(data, offset)
           [] At(data, offset) = "s" -> consumeString(data, offset)
           [] At(data, offset) = "N" -> consumeNil(data, offset)
           [] OTHER -> Ok(NilV, offset + 2)

consumeNext(data, offset) ==
    IF offset >= Len(data) THEN Failed(NilV, Err("corrupt"))
    ELSE CASE At(data, offset) = "b" -> consumeBool(data, offset)
           [] At(data, offset) = "d" -> consumeFloat(data, offset)
           [] At(data, offset) = "i" -> consumeInt(data, offset)
           [] At(data, offset) = "s" -> consumeString(data, offset)
           [] At(data, offset) = "N" -> consumeNil(data, offset)
           [] OTHER -> Failed(NilV, ErrTail("can not consume type",
                                            Slice(data, offset, Len(data))))

(***************************************************************************)
(* Wire nodes: what a buffer is serialized from.                           *)
(* A node is a record: t is the tag; n is the number of an "i" node, the   *)
(* truth value of a "b" node, the length field of an "s" node and the      *)
(* element count field of an "O" node.  A "d" node is the decimal          *)
(* n * ds / 10^e: n is its sign, 1 or -1, ds the digits of its mantissa    *)
(* with no leading zero (none for 0).  s is the payload of an "s" node,    *)
(* the class name of an "O" node and the literal a "d" node is written as  *)
(* (empty: the plain decimal).  pairs are the key/value pairs of an "O"    *)
(* node.  Tag "a" is the array tag; tags "d?" and "i?" are a d-tagged and  *)
(* an i-tagged node whose literal s is no number of the grammar.           *)
(***************************************************************************)
NNull == [t |-> "N", n |-> 0, e |-> 0, ds |-> <<>>, s |-> <<>>, pairs |-> <<>>]
NBool(b) ==
    [t |-> "b", n |-> IF b THEN 1 ELSE 0, e |-> 0, ds |-> <<>>, s |-> <<>>, pairs |-> <<>>]
NInt(n) == [t |-> "i", n |-> n, e |-> 0, ds |-> <<>>, s |-> <<>>, pairs |-> <<>>]
\* The decimal +-ds / 10^e spelled lit
NDecimal(lit, neg, ds, e) ==
    [t |-> "d", n |-> IF neg THEN -1 ELSE 1, e |-> e, ds |-> ds, s |-> lit, pairs |-> <<>>]
\* The decimal m / 10^e spelled lit
NFloatAs(lit, m, e) ==
    NDecimal(lit, m < 0, StripZeros(NatDigits(IF m < 0 THEN 0 - m ELSE m)), e)
NFloat(m, e) == NFloatAs(<<>>, m, e)
NFloatRaw(lit) == [t |-> "d?", n |-> 0, e |-> 0, ds |-> <<>>, s |-> lit, pairs |-> <<>>]
NIntRaw(lit) == [t |-> "i?", n |-> 0, e |-> 0, ds |-> <<>>, s |-> lit, pairs |-> <<>>]
NStrLen(s, length) ==
    [t |-> "s", n |-> length, e |-> 0, ds |-> <<>>, s |-> s, pairs |-> <<>>]
NStr(s) == NStrLen(s, Len(s))
NObjCount(cls, count, pairs) ==
    [t |-> "O", n |-> count, e |-> 0, ds |-> <<>>, s |-> cls, pairs |-> pairs]
NObj(cls, pairs) == NObjCount(cls, Len(pairs), pairs)
NArr == [t |-> "a", n |-> 0, e |-> 0, ds |-> <<>>, s |-> <<>>, pairs |-> <<>>]
Pair(k, v) == [k |-> k, v |-> v]

ScalarTags == {"N", "b", "i", "d", "s"}

Itoa(n) == IF n < 0 THEN <<"-">> \o NatDigits(0 - n) ELSE NatDigits(n)

\* ds left-padded with "0" to at least w digits
RECURSIVE PadTo(_, _)
PadTo(ds, w) == IF Len(ds) >= w THEN ds ELSE PadTo(<<"0">> \o ds, w)

\* The plain decimal literal of +-ds / 10^e, e >= 0
Ftoa(neg, ds, e) ==
    LET all == PadTo(ds, e + 1)
        ip == SubSeq(all, 1, Len(all) - e)
        fp == SubSeq(all, Len(all) - e + 1, Len(all))
    IN  (IF neg THEN <<"-">> ELSE <<>>) \o ip \o (IF e = 0 THEN <<>> ELSE <<".">> \o fp)

\* length ":\"" bytes "\""
Framed(length, bytes) == Itoa(length) \o <<":", "\"">> \o bytes \o <<"\"">>

EncodeKey(k) == <<"s", ":">> \o Framed(Len(k), k) \o <<";">>

\* "O:" length ":\"" classname "\":" count ":{"
Header(node) == <<"O", ":">> \o Framed(Len(node.s), node.s) \o <<":">> \o Itoa(node.n) \o <<":", "{">>

\* The wire format grammar
RECURSIVE Encode(_)
RECURSIVE EncodePairs(_, _)
Encode(node) ==
    CASE node.t = "N" -> <<"N", ";">>
      [] node.t = "b" -> <<"b", ":", DigitChar(node.n), ";">>
      [] node.t = "i" -> <<"i", ":">> \o Itoa(node.n) \o <<";">>
      [] node.t = "d" -> <<"d", ":">>
                         \o (IF node.s = <<>> THEN Ftoa(node.n < 0, node.ds, node.e)
                             ELSE node.s)
                         \o <<";">>
      [] node.t = "d?" -> <<"d", ":">> \o node.s \o <<";">>
      [] node.t = "i?" -> <<"i", ":">> \o node.s \o <<";">>
      [] node.t = "s" -> <<"s", ":">> \o Framed(node.n, node.s) \o <<";">>
      [] node.t = "O" -> Header(node) \o EncodePairs(node.pairs, Len(node.pairs)) \o <<"}">>
      [] node.t = "a" -> <<"a", ":", "0", ":", "{", "}">>

\* The first j pairs
EncodePairs(pairs, j) ==
    IF j = 0 THEN <<>>
    ELSE EncodePairs(pairs, j - 1) \o EncodeKey(pairs[j].k) \o Encode(pairs[j].v)

\* A node of the grammar: lengths and counts as the grammar gives them, tags
\* of the supported set
RECURSIVE WellFormed(_)
WellFormed(node) ==
    CASE node.t = "s" -> node.n = Len(node.s)
      [] node.t = "O" -> /\ node.n = Len(node.pairs)
                         /\ \A j \in 1..Len(node.pairs) : WellFormed(node.pairs[j].v)
      [] node.t \in {"a", "d?", "i?"} -> FALSE
      [] OTHER -> TRUE

\* The decimal +-ds / 10^e as a float64 value: the float64 nearest to it
DecimalOf(neg, ds, e) == DecimalFloat(neg, ds, 0 - e).v

\* The logical value of a scalar or text node
ValueOf(node) ==
    CASE node.t = "N" -> NilV
      [] node.t = "b" -> BoolV(node.n = 1)
      [] node.t = "i" -> IntV(node.n)
      [] node.t = "d" -> DecimalOf(node.n < 0, node.ds, node.e)
      [] node.t = "s" -> StrV(node.s)
      [] OTHER -> NilV

(***************************************************************************)
(* Destination records.  A destination is flat: a function from the path   *)
(* of a field (the field names from the root record down) to its slot, the *)
(* field's kind and current value.  A field of kind "struct" is a nested   *)
(* record; its fields are the paths that extend it.                        *)
(***************************************************************************)
NameF == <<"N", "a", "m", "e">>
AgeF == <<"A", "g", "e">>
SubF == <<"S", "u", "b">>

Slot(kind) ==
    [kind |-> kind,
     val |-> CASE kind \in {"int", "uint"} -> IntV(0)
               [] kind = "float" -> FloatZero
               [] kind = "string" -> StrV(<<>>)
               [] kind = "bool" -> BoolV(FALSE)
               [] OTHER -> NilV]

RECURSIVE SubPath(_)
SubPath(j) == IF j = 0 THEN <<>> ELSE SubPath(j - 1) \o <<SubF>>

\* A record type, nested in itself down to MaxDepth levels: Name of kind
\* shape.name, Age of kind shape.age, Sub of kind shape.sub ("none": no field)
Levels(shape) == IF shape.sub = "struct" THEN 0..MaxDepth ELSE {0}

FieldsAt(shape, j) ==
    (IF shape.name = "none" THEN {} ELSE {NameF})
    \cup (IF shape.age = "none" THEN {} ELSE {AgeF})
    \cup (IF shape.sub = "none" \/ (shape.sub = "struct" /\ j = MaxDepth)
          THEN {} ELSE {SubF})

PathsOf(shape) ==
    UNION { {SubPath(j) \o <<f>> : f \in FieldsAt(shape, j)} : j \in Levels(shape) }

KindAt(shape, p) ==
    LET f == p[Len(p)]
    IN  IF f = NameF THEN shape.name ELSE IF f = AgeF THEN shape.age ELSE shape.sub

DestOf(shape) == [p \in PathsOf(shape) |-> Slot(KindAt(shape, p))]

Shape(name, age, sub) == [name |-> name, age |-> age, sub |-> sub]

Shapes ==
    { Shape("string", "int", "struct"),
      Shape("string", "iface", "struct"),
      Shape("string", "int", "none"),
      Shape("string", "none", "struct"),
      Shape("none", "none", "none"),
      Shape("string", "uint", "struct"),
      Shape("string", "float", "int"),
      Shape("int", "string", "struct") }

FullShape == Shape("string", "int", "struct")

(***************************************************************************)
(* Inputs: the buffers, offsets and destinations the consumers are called  *)
(* with.                                                                   *)
(***************************************************************************)
nameK == <<"n", "a", "m", "e">>
ageK == <<"a", "g", "e">>
subK == <<"s", "u", "b">>
zzK == <<"z", "z">>
ClassA == <<"A">>
Bob == <<"B", "o", "b">>
Hello == <<"h", "e", "l", "l", "o">>
\* A payload of one two-byte sequence
Accented == <<"C3", "A9">>

SeqsUpTo(S, k) == UNION { [1..j -> S] : j \in 0..k }

ScalarPairs ==
    { Pair(nameK, NStr(Bob)), Pair(ageK, NInt(30)), Pair(ageK, NNull),
      Pair(ageK, NFloat(25, 1)), Pair(zzK, NInt(7)), Pair(zzK, NArr) }

FlatObjects == { NObj(ClassA, ps) : ps \in SeqsUpTo(ScalarPairs, MaxPairs) }

\* Objects nested d levels deep, with optional sibling pairs around the
\* nested one
RECURSIVE Chain(_)
Chain(d) ==
    IF d = 0 THEN { NObj(ClassA, <<Pair(ageK, NInt(40))>>) }
    ELSE { NObj(ClassA, pre \o <<Pair(k, c)>> \o post) :
             pre \in {<<>>, <<Pair(nameK, NStr(Bob))>>},
             k \in {subK, zzK},
             c \in Chain(d - 1),
             post \in {<<>>, <<Pair(ageK, NInt(40 + d))>>} }

NestedObjects == UNION { Chain(d) : d \in 1..MaxDepth }

Person ==
    NObj(<<"P", "e", "r", "s", "o", "n">>,
         <<Pair(<<"N", "a", "m", "e">>, NStr(Bob)), Pair(<<"A", "g", "e">>, NInt(30))>>)

\* Decimals written with an exponent, as PHP writes the large and the small
ExpFloats ==
    { NFloatAs(<<"1", ".", "0", "E", "+", "2", "5">>, 1, -25),
      NFloatAs(<<"2", ".", "5", "E", "-", "3">>, 25, 4),
      NFloatAs(<<"1", "e", "3">>, 1, -3),
      NFloatAs(<<"3", ".", "e", "5">>, 3, -5),
      NFloatAs(<<"-", ".", "5", "e", "1">>, -5, 0),
      NFloatAs(<<"-", "0", "e", "0", "5">>, 0, 0) }

\* Decimals that are no float64 and are rounded to the nearest one: to 53
\* bits, to the largest float64, to a subnormal, to zero
RoundedFloats ==
    { NFloat(1, 1),
      NFloatAs(<<"1", "e", "2", "3">>, 1, -23),
      NFloatAs(<<"5", "e", "-", "3", "2", "4">>, 5, 324),
      NFloatAs(<<"4", ".", "9", "e", "-", "3", "2", "4">>, 49, 325),
      NFloatAs(<<"1", "e", "-", "9", "9", "9">>, 1, 999),
      NDecimal(
          <<"0", ".", "1", "0", "0", "0", "0", "0", "0", "0", "0", "0", "0",
            "0", "0", "0", "0", "0", "0", "0", "0", "0", "0", "0", "1">>,
          FALSE,
          <<"1", "0", "0", "0", "0", "0", "0", "0", "0", "0", "0", "0", "0",
            "0", "0", "0", "0", "0", "0", "0", "0", "0", "1">>,
          23),
      NDecimal(
          <<"9", "0", "0", "7", "1", "9", "9", "2", "5", "4", "7", "4", "0",
            "9", "9", "3">>,
          FALSE,
          <<"9", "0", "0", "7", "1", "9", "9", "2", "5", "4", "7", "4", "0",
            "9", "9", "3">>,
          0),
      NDecimal(
          <<"1", ".", "7", "9", "7", "6", "9", "3", "1", "3", "4", "8", "6",
            "2", "3", "1", "5", "8", "0", "7", "9", "e", "3", "0", "8">>,
          FALSE,
          <<"1", "7", "9", "7", "6", "9", "3", "1", "3", "4", "8", "6", "2",
            "3", "1", "5", "8", "0", "7", "9">>,
          -289),
      NDecimal(
          <<"-", "2", ".", "4", "7", "0", "3", "2", "8", "2", "2", "9", "2",
            "0", "6", "2", "3", "2", "7", "2", "0", "8", "1", "e", "-", "3",
            "2", "4">>,
          TRUE,
          <<"2", "4", "7", "0", "3", "2", "8", "2", "2", "9", "2", "0", "6",
            "2", "3", "2", "7", "2", "0", "8", "1">>,
          344) }

\* Decimals beyond the largest float64, rounded to an infinity
FarFloats ==
    { NFloatAs(<<"1", "e", "9", "9", "9">>, 1, -999),
      NFloatAs(<<"-", "2", "e", "3", "0", "8">>, -2, -308),
      NDecimal(
          <<"1", ".", "7", "9", "7", "6", "9", "3", "1", "3", "4", "8", "6",
            "2", "3", "1", "5", "8", "0", "8", "e", "3", "0", "8">>,
          FALSE,
          <<"1", "7", "9", "7", "6", "9", "3", "1", "3", "4", "8", "6", "2",
            "3", "1", "5", "8", "0", "8">>,
          -290) }

\* The other literals strconv.ParseFloat reads, and some it rejects
RawFloats ==
    { NFloatRaw(lit) :
        lit \in { <<"I", "N", "F">>, <<"-", "I", "N", "F">>, <<"N", "A", "N">>,
                  <<"+", "I", "n", "f", "i", "n", "i", "t", "y">>,
                  <<"0", "x", "1", "p", "4">>, <<"0", "X", "1", ".", "8", "P", "-", "1">>,
                  <<"0", "x", ".", "8", "p", "1">>,
                  <<"0", "x", "1", ".", "0", "0", "0", "0", "0", "0", "0", "0", "0", "0", "0",
                    "0", "0", "1", "p", "0">>,
                  <<"0", "x", "1", ".", "f", "f", "f", "f", "f", "f", "f", "f", "f", "f", "f",
                    "f", "f", "8", "p", "1", "0", "2", "3">>,
                  <<"0", "x", "1", "p", "-", "1", "0", "7", "5">>,
                  <<"0", "x", "3", "p", "-", "1", "0", "7", "6">>,
                  <<"1", "_", "0", ".", "5">>,
                  <<"-", "N", "A", "N">>, <<"i", "n", "f", "i", "n">>,
                  <<"0", "x", "1">>, <<"1", "_", "_", "0">>, <<"1", "e">>,
                  <<"1", ".", "2", ".", "3">>, <<".">>, <<>> } }

\* Integer literals strconv.Atoi rejects, and one more it reads
RawInts ==
    { NIntRaw(lit) :
        lit \in { MaxInt64Digits, <<"1", "_", "0">>, <<"0", "x", "1", "0">>,
                  <<"1", "e", "3">>, <<"+", "0", "7">>, <<>> } }

Scalars ==
    { NNull, NBool(TRUE), NBool(FALSE), NInt(42), NInt(-7), NInt(0),
      NFloat(35, 1), NFloat(-5, 2), NFloat(3, 0), NStr(Hello), NStr(<<>>) }
    \cup ExpFloats

\* Nodes whose length or count field is not what the grammar gives
BadLengths ==
    { NStrLen(<<"a", "b">>, l) : l \in {-1, 0, 1, 3, 9} }
    \cup { NObj(ClassA, <<Pair(nameK, NStrLen(<<"a", "b">>, l))>>) : l \in {-1, 1, 9} }

BadCounts ==
    { NObjCount(ClassA, c, ps) :
        c \in -1..3, ps \in SeqsUpTo({Pair(ageK, NInt(30)), Pair(zzK, NInt(7))}, 2) }
    \ FlatObjects

TruncNodes ==
    { NNull, NBool(TRUE), NInt(42), NFloat(35, 1),
      NFloatAs(<<"1", ".", "0", "E", "+", "2", "5">>, 1, -25), NStr(Hello), Person,
      NObj(ClassA, <<Pair(ageK, NBool(TRUE))>>),
      NObj(ClassA, <<Pair(subK, NObj(ClassA, <<Pair(ageK, NInt(40))>>)), Pair(ageK, NInt(41))>>) }

Input(node, variant, data, offset, shape) ==
    [node |-> node, variant |-> variant, data |-> data, offset |-> offset,
     dest |-> DestOf(shape)]

\* data with the byte at index i replaced
Replace(data, i, c) == [data EXCEPT ![i + 1] = c]

Inputs ==
    \* Well-formed and ill-formed whole nodes, into every destination
    { Input(o, "whole", Encode(o), 0, sh) :
        o \in FlatObjects \cup NestedObjects \cup {Person}, sh \in Shapes }
    \cup { Input(o, "whole", Encode(o), 0, FullShape) :
        o \in Scalars \cup RoundedFloats \cup FarFloats \cup RawFloats \cup RawInts
              \cup BadLengths \cup BadCounts \cup {NArr, NStr(Accented)} }
    \* Proper prefixes of a node
    \cup UNION { { Input(o, "prefix", SubSeq(Encode(o), 1, l), 0, FullShape) :
                     l \in 1..(Len(Encode(o)) - 1) } : o \in TruncNodes }
    \* An object whose brace bytes are other bytes
    \cup UNION { { Input(o, "brace", Replace(Encode(o), i, "x"), 0, FullShape) :
                     i \in {Len(Header(o)) - 1, Len(Encode(o)) - 1} } :
                 o \in {Person, NObj(ClassA, <<>>)} }
    \* A node in the middle of a buffer
    \cup { Input(o, "embedded", pre \o Encode(o) \o post, Len(pre), FullShape) :
             o \in Scalars \cup {NArr, NObj(ClassA, <<>>), Person},
             pre \in {<<"x">>, Encode(NNull), Encode(NStr(Bob)), Encode(NStr(Accented))},
             post \in {<<>>, Encode(NInt(1)), <<"}">>} }

(***************************************************************************)
(* Field assignment                                                        *)
(***************************************************************************)
\* setField: whether the reflect calls return, and the destination after
setField(dest, field, value) ==
    LET kind == dest[field].kind
        fits == CASE kind = "int" -> value.k = "int"
                  [] kind = "uint" -> FALSE
                  [] kind = "float" -> value.k = "float"
                  [] kind = "string" -> value.k = "string"
                  [] kind = "bool" -> value.k = "bool"
                  [] kind = "iface" -> value.k # "nil"
                  [] OTHER -> FALSE
    IN  IF fits THEN [ok |-> TRUE, dest |-> [dest EXCEPT ![field].val = value]]
        ELSE [ok |-> FALSE, dest |-> dest]

(***************************************************************************)
(* consumeObject                                                           *)
(***************************************************************************)
\* The tag, the class name, the element count and the "{": (count, offset)
objectHeader(data, offset) ==
    IF ~checkType(data, "O", offset) THEN Failed(IntV(0), Err("not an object"))
    ELSE LET c == consumeStringRealPart(data, offset + 2)
             l == consumeIntPart(data, c.off)
         IN  IF c.st = "panic" THEN c
             ELSE IF c.st = "err" THEN Failed(IntV(0), c.err)
             ELSE IF l.st = "err" THEN Failed(IntV(0), l.err)
             ELSE Ok(l.v, l.off + 1)

(***************************************************************************)
(* State                                                                   *)
(*   decoder        the encoding of the raw-decode helper                  *)
(*   node, variant  what the buffer was built from (description of input)  *)
(*   data, offset   the buffer and the offset the consumer is called with  *)
(*   dest           the destination record of the top-level consumeObject  *)
(*   call           the consumer the caller invoked                        *)
(*   pc             "start", "enter" (a consumeObject call begins),        *)
(*                  "loop" (at the head of the pair loop), "done"          *)
(*   stack          the active consumeObject calls, innermost last: the    *)
(*                  destination v (a field path, or the dummy object), the *)
(*                  element count, the loop index i, the offset at entry   *)
(*   sub            the destination of the consumeObject call that begins  *)
(*   cur            the local variable offset of the innermost call        *)
(*   result         what the top-level call returned                       *)
(***************************************************************************)
VARIABLES node, variant, data, offset, dest, call, pc, stack, sub, cur, result

vars ==
    <<decoder, node, variant, data, offset, dest, call, pc, stack, sub, cur, result>>

NoResult == [st |-> "none", v |-> NilV, off |-> 0, err |-> NoErr]
RootDest == [base |-> <<>>, sink |-> FALSE]
\* &dummyObject{}
DummyDest == [base |-> <<>>, sink |-> TRUE]

Init ==
    /\ decoder \in Decoders
    /\ \E in \in Inputs :
         /\ node = in.node
         /\ variant = in.variant
         /\ data = in.data
         /\ offset = in.offset
         /\ dest = in.dest
    /\ call = "none"
    /\ pc = "start"
    /\ stack = <<>>
    /\ sub = RootDest
    /\ cur = offset
    /\ result = NoResult

\* A top-level call of a scalar, text or dispatching consumer
Returned(name, r) ==
    /\ pc = "start"
    /\ call' = name
    /\ result' = r
    /\ pc' = "done"
    /\ UNCHANGED <<decoder, node, variant, data, offset, dest, stack, sub, cur>>

CallNil == Returned("nil", consumeNil(data, offset))
CallBool == Returned("bool", consumeBool(data, offset))
CallInt == Returned("int", consumeInt(data, offset))
CallFloat == Returned("float", consumeFloat(data, offset))
CallString == Returned("string", consumeString(data, offset))
CallNext == Returned("next", consumeNext(data, offset))

\* The top-level call consumeObject(data, offset, &dest)
CallObject ==
    /\ pc = "start"
    /\ call' = "object"
    /\ pc' = "enter"
    /\ sub' = RootDest
    /\ cur' = offset
    /\ UNCHANGED <<decoder, node, variant, data, offset, dest, stack, result>>

\* Every active consumeObject call returns (-1, err), or the panic unwinds
Abort(r) ==
    /\ result' = [r EXCEPT !.v = NilV]
    /\ pc' = "done"
    /\ stack' = <<>>
    /\ UNCHANGED <<decoder, node, variant, data, offset, dest, call, sub, cur>>

\* consumeObject up to the pair loop
Enter ==
    /\ pc = "enter"
    /\ \E h \in {objectHeader(data, cur)} :
           IF h.st # "ok" THEN Abort(h)
           ELSE /\ stack' = Append(stack, [base |-> sub.base, sink |-> sub.sink,
                                          length |-> h.v.n, i |-> 0, start |-> cur])
                /\ cur' = h.off
                /\ pc' = "loop"
                /\ UNCHANGED <<decoder, node, variant, data, offset, dest, call, sub, result>>

Top == stack[Len(stack)]

\* The key of the pair at the cursor
KeyAt == consumeString(data, cur)

\* reflect.ValueOf(v).Elem() is a struct
IsStruct(f) ==
    IF f.sink \/ f.base = <<>> THEN TRUE ELSE dest[f.base].kind = "struct"

\* The field the key names in the destination of the innermost call
FieldOf(f, key) == f.base \o <<upperCaseFirstLetter(key)>>
FieldValid(f, key) == ~f.sink /\ FieldOf(f, key) \in DOMAIN dest

NextIndex(s) == [s EXCEPT ![Len(s)].i = @ + 1]

\* One iteration of the pair loop whose value is not an object, and every
\* iteration that ends the call before the value's tag is dispatched
PairValue ==
    /\ pc = "loop"
    /\ Top.i < Top.length
    /\ \E k \in {KeyAt} :
       LET r == consumeNext(data, k.off)
           sf == setField(dest, FieldOf(Top, k.v.s), r.v)
       IN  IF k.st # "ok" THEN Abort(k)
           ELSE IF ~IsStruct(Top) THEN Abort(Panicked("reflect: FieldByName of non-struct"))
           ELSE IF k.off >= Len(data) THEN Abort(Panicked("index out of range"))
           ELSE /\ At(data, k.off) # "O"
                /\ IF r.st # "ok" THEN Abort(r)
                   ELSE IF FieldValid(Top, k.v.s) /\ ~sf.ok
                        THEN Abort(Panicked("reflect: value of the wrong kind"))
                   ELSE /\ dest' = IF FieldValid(Top, k.v.s) THEN sf.dest ELSE dest
                        /\ cur' = r.off
                        /\ stack' = NextIndex(stack)
                        /\ UNCHANGED <<decoder, node, variant, data, offset, call, pc,
                                       sub, result>>

\* Mutant: an object under a key that names no field is decoded into the
\* caller's own destination instead of the dummy object
PairObject_NoDummy ==
    /\ pc = "loop"
    /\ Top.i < Top.length
    /\ LET k == KeyAt
       IN  /\ k.st = "ok"
           /\ IsStruct(Top)
           /\ k.off < Len(data)
           /\ At(data, k.off) = "O"
           /\ sub' = IF FieldValid(Top, k.v.s)
                     THEN [base |-> FieldOf(Top, k.v.s), sink |-> FALSE]
                     ELSE [base |-> Top.base, sink |-> Top.sink]
           /\ cur' = k.off
           /\ pc' = "enter"
           /\ UNCHANGED <<decoder, node, variant, data, offset, dest, call, stack, result>>

\* An iteration whose value is an object: the recursive call begins
PairObject ==
    /\ pc = "loop"
    /\ Top.i < Top.length
    /\ LET k == KeyAt
       IN  /\ k.st = "ok"
           /\ IsStruct(Top)
           /\ k.off < Len(data)
           /\ At(data, k.off) = "O"
           /\ sub' = IF FieldValid(Top, k.v.s)
                     THEN [base |-> FieldOf(Top, k.v.s), sink |-> FALSE]
                     ELSE DummyDest
           /\ cur' = k.off
           /\ pc' = "enter"
           /\ UNCHANGED <<decoder, node, variant, data, offset, dest, call, stack, result>>

\* Mutant: the closing "}" is not skipped
Return_NoBrace ==
    /\ pc = "loop"
    /\ Top.i >= Top.length
    /\ cur' = cur
    /\ IF Len(stack) = 1
       THEN /\ stack' = <<>>
            /\ result' = Ok(NilV, cur)
            /\ pc' = "done"
       ELSE /\ stack' = NextIndex(SubSeq(stack, 1, Len(stack) - 1))
            /\ UNCHANGED <<result, pc>>
    /\ UNCHANGED <<decoder, node, variant, data, offset, dest, call, sub>>

\* The loop is over: skip the "}" and return; the caller's loop goes on
Return ==
    /\ pc = "loop"
    /\ Top.i >= Top.length
    /\ cur' = cur + 1
    /\ IF Len(stack) = 1
       THEN /\ stack' = <<>>
            /\ result' = Ok(NilV, cur + 1)
            /\ pc' = "done"
       ELSE /\ stack' = NextIndex(SubSeq(stack, 1, Len(stack) - 1))
            /\ UNCHANGED <<result, pc>>
    /\ UNCHANGED <<decoder, node, variant, data, offset, dest, call, sub>>

Next ==
    \/ CallNil
    \/ CallBool
    \/ CallInt
    \/ CallFloat
    \/ CallString
    \/ CallNext
    \/ CallObject
    \/ Enter
    \/ PairValue
    \/ PairObject
    \/ Return

Spec == Init /\ [][Next]_vars

(***************************************************************************)
(* What the claims speak of                                                *)
(***************************************************************************)
Done == pc = "done"

\* The buffer is exactly a well-formed object node
WholeObject == variant = "whole" /\ node.t = "O" /\ WellFormed(node)

\* The values the pairs of an object node give, in wire order, to the field
\* at path p of the record the node is decoded into: a scalar pair whose key
\* names p, or the pairs of a nested object whose key names the record p
\* lies in
RECURSIVE Written(_, _)
RECURSIVE WrittenBy(_, _, _)
Written(obj, p) == WrittenBy(obj, p, Len(obj.pairs))

WrittenBy(obj, p, j) ==
    IF j = 0 THEN <<>>
    ELSE LET pr == obj.pairs[j]
             here == IF upperCaseFirstLetter(pr.k) # p[1] THEN <<>>
                     ELSE IF pr.v.t = "O"
                          THEN (IF Len(p) > 1 THEN Written(pr.v, Tail(p)) ELSE <<>>)
                          ELSE (IF Len(p) = 1 THEN <<ValueOf(pr.v)>> ELSE <<>>)
         IN  WrittenBy(obj, p, j - 1) \o here

\* The value field p holds after the node is decoded: the last one written,
\* or the value it had
ExpectedVal(obj, p) ==
    LET w == Written(obj, p)
    IN  IF Len(w) = 0 THEN Slot(dest[p].kind).val ELSE w[Len(w)]

DestAsExpected == \A p \in DOMAIN dest : dest[p].val = ExpectedVal(node, p)

\* A value of kind vk can be held by a field of kind fk
Holds(fk, vk) == (fk = vk) \/ (fk = "iface" /\ vk # "nil")

\* Every pair of obj whose key names a field of the record at base carries a
\* value that field can hold: a scalar or text of the field's kind, a nested
\* object for a nested record.  Keys that name no field carry anything.
RECURSIVE Accepts(_, _)
Accepts(base, obj) ==
    \A j \in 1..Len(obj.pairs) :
        LET pr == obj.pairs[j]
            f == base \o <<upperCaseFirstLetter(pr.k)>>
        IN  IF f \notin DOMAIN dest THEN TRUE
            ELSE IF pr.v.t = "O" THEN dest[f].kind = "struct" /\ Accepts(f, pr.v)
            ELSE Holds(dest[f].kind, ValueOf(pr.v).k)

\* Every key of obj names a field of the record at base (of nested records
\* likewise)
RECURSIVE AllMatched(_, _)
AllMatched(base, obj) ==
    \A j \in 1..Len(obj.pairs) :
        LET pr == obj.pairs[j]
            f == base \o <<upperCaseFirstLetter(pr.k)>>
        IN  f \in DOMAIN dest /\ (pr.v.t = "O" => AllMatched(f, pr.v))

\* The node of the object call at depth j of the stack, when every call below
\* it is at the pair it recursed from
RECURSIVE FrameNode(_)
FrameNode(j) ==
    IF j = 1 THEN node ELSE FrameNode(j - 1).pairs[stack[j - 1].i + 1].v

\* The pair the call at depth j recursed from
OuterPair(j) == FrameNode(j - 1).pairs[stack[j - 1].i + 1]

\* The index at which the node of the call at depth j begins
RECURSIVE FrameStart(_)
FrameStart(j) ==
    IF j = 1 THEN offset
    ELSE FrameStart(j - 1) + Len(Header(FrameNode(j - 1)))
         + Len(EncodePairs(FrameNode(j - 1).pairs, stack[j - 1].i))
         + Len(EncodeKey(OuterPair(j).k))

\* The calls up to depth j are where the wire data puts them: each began at
\* the start of its node, counts the node's pairs, and has as destination
\* the nested record its key names in its caller's destination (the dummy
\* object, when there is none)
RECURSIVE Synced(_)
Synced(j) ==
    IF j = 0 THEN TRUE
    ELSE /\ Synced(j - 1)
         /\ j > 1 => /\ stack[j - 1].i < Len(FrameNode(j - 1).pairs)
                     /\ OuterPair(j).v.t = "O"
                     /\ LET f == stack[j - 1].base \o <<upperCaseFirstLetter(OuterPair(j).k)>>
                        IN  IF ~stack[j - 1].sink /\ f \in DOMAIN dest
                            THEN ~stack[j].sink /\ stack[j].base = f
                            ELSE stack[j].sink
         /\ j = 1 => stack[j].base = <<>> /\ ~stack[j].sink
         /\ stack[j].start = FrameStart(j)
         /\ stack[j].length = Len(FrameNode(j).pairs)
         /\ stack[j].i <= stack[j].length

\* The cursor of the innermost call is one past the pairs it has decoded
CursorAfterPairs ==
    LET j == Len(stack)
    IN  cur = FrameStart(j) + Len(Header(FrameNode(j)))
              + Len(EncodePairs(FrameNode(j).pairs, stack[j].i))

(***************************************************************************)
(* Claims                                                                  *)
(***************************************************************************)

\* C1: consumeNext / consumeObject called at the start of a node whose buffer
\* ends before the node's terminator returns a failure (an error with offset
\* -1): never a success, never a read past the buffer's end (a panic).
C1_TruncatedFails ==
    (Done /\ variant = "prefix"
          /\ call = (IF node.t = "O" THEN "object" ELSE "next"))
    => (result.st = "err" /\ result.off = -1)

\* A field kind is the matching kind of a value kind: the same kind, and for
\* null the one kind that can hold it
Matching(fk, vk) == IF vk = "nil" THEN fk = "iface" ELSE fk = vk

RECURSIVE AllMatching(_, _)
AllMatching(base, obj) ==
    \A j \in 1..Len(obj.pairs) :
        LET pr == obj.pairs[j]
            f == base \o <<upperCaseFirstLetter(pr.k)>>
        IN  /\ pr.v.t # "O"
            /\ f \in DOMAIN dest
            /\ Matching(dest[f].kind, ValueOf(pr.v).k)

\* C2: a well-formed object node that is the whole buffer, its values scalars
\* or text, each key naming a field of the matching kind: consumeObject at
\* offset 0 succeeds, every named field holds the value decoded for its key
\* (pairs applied in wire order), and the offset returned is the buffer length.
C2_FieldsAssigned ==
    (Done /\ call = "object" /\ WholeObject /\ AllMatching(<<>>, node))
    => (result.st = "ok" /\ result.off = Len(data) /\ DestAsExpected)

\* C3: a well-formed object node decoded into a destination that lacks a field
\* for some of its keys (every key that does name a field carrying a value the
\* field holds): consumeObject succeeds, returns the offset one past the node
\* (the same whatever fields the destination lacks), every field of the
\* destination holds what the pairs naming it give it (the same whatever
\* other fields there are), and nothing else is written, whether the
\* unmatched key's value is a scalar, a text or a nested object.
C3_UnmatchedSkipped ==
    (Done /\ call = "object" /\ WholeObject
          /\ ~AllMatched(<<>>, node) /\ Accepts(<<>>, node))
    => (result.st = "ok" /\ result.off = Len(data) /\ DestAsExpected)

C3_Witness ==
    /\ Done /\ call = "object" /\ WholeObject /\ result.st = "ok"
    /\ Accepts(<<>>, node)
    /\ <<NameF>> \in DOMAIN dest /\ dest[<<NameF>>].val = StrV(Bob)
    /\ \E j \in 1..Len(node.pairs) :
          /\ node.pairs[j].k = zzK
          /\ node.pairs[j].v.t = "O"
          /\ Len(node.pairs[j].v.pairs) > 0
          /\ j < Len(node.pairs)

\* C4: in a well-formed object node, a value that is itself an object node is
\* decoded by a recursive call whose destination is the nested record the key
\* names; at every depth the cursor of each call stays where the wire data
\* puts it, so after the recursive call the caller's cursor is one past the
\* inner "}", the following siblings are decoded from there, the inner pairs
\* are in the nested record, and the outer call returns one past the outer "}".
C4_NestedInStep ==
    /\ (call = "object" /\ WholeObject /\ pc = "loop")
       => (Synced(Len(stack)) /\ CursorAfterPairs)
    /\ (Done /\ call = "object" /\ WholeObject /\ result.st = "ok")
       => (result.off = Len(data) /\ DestAsExpected)

C4_Witness ==
    /\ Done /\ call = "object" /\ WholeObject /\ result.st = "ok"
    /\ Len(node.pairs) = 3
    /\ node.pairs[2].k = subK /\ node.pairs[2].v.t = "O"
    /\ Len(node.pairs[2].v.pairs) > 0
    /\ \E j \in 1..Len(node.pairs[2].v.pairs) :
          /\ node.pairs[2].v.pairs[j].k = subK
          /\ node.pairs[2].v.pairs[j].v.t = "O"
          /\ Len(node.pairs[2].v.pairs[j].v.pairs) > 0
    /\ <<SubF, SubF, AgeF>> \in DOMAIN dest
    /\ dest[<<SubF, SubF, AgeF>>].val = IntV(40)
    /\ dest[<<SubF, AgeF>>].val = IntV(41)
    /\ dest[<<AgeF>>].val = IntV(42)

\* The failure of consumeNext on a tag it does not know
Unsupported(off) ==
    Failed(NilV, ErrTail("can not consume type", Slice(data, off, Len(data))))

C5_TopLevel ==
    (Done /\ call = "next" /\ offset < Len(data) /\ At(data, offset) \notin ScalarTags)
    => result = Unsupported(offset)

C5_InObject ==
    (/\ pc = "loop"
     /\ Top.i < Top.length
     /\ KeyAt.st = "ok"
     /\ IsStruct(Top)
     /\ KeyAt.off < Len(data)
     /\ At(data, KeyAt.off) \notin ScalarTags \cup {"O"})
    => (pc' = "done" /\ result' = Unsupported(KeyAt.off) /\ dest' = dest)

\* C5: at an in-range offset whose tag byte is none of N, b, i, d, s,
\* consumeNext returns (nil, -1, the unsupported-tag error with the buffer
\* tail); and a pair of an object node whose value starts with such a tag
\* (other than O) makes consumeObject return that error, the destination as it
\* was.
C5_UnsupportedTag == [](C5_TopLevel) /\ [][C5_InObject]_vars

C5_Witness ==
    /\ Done /\ call = "object" /\ node.t = "O" /\ variant = "whole"
    /\ result.st = "err" /\ result.err.msg = "can not consume type"
    /\ Len(node.pairs) = 2 /\ node.pairs[2].v.t = "a"
    /\ <<AgeF>> \in DOMAIN dest /\ dest[<<AgeF>>].val = IntV(30)

\* A grammar-valid scalar or text node begins at the offset
ScalarAtOffset ==
    /\ variant \in {"whole", "embedded"}
    /\ node.t \in ScalarTags
    /\ WellFormed(node)

\* n, or 0 for a negative n
Positive(n) == IF n > 0 THEN n ELSE 0

\* a * 2^twos * 10^tens
Times(a, twos, tens) ==
    Only({ Repeat("times5", h, tens).d :
             h \in {Repeat("double", Exact(a), twos + tens)} })

\* a <= b
AtMost(a, b) == ~Less(b, a)

\* Half the gap between the largest float64 and 2^1024, above the largest
\* float64, is (2^54 - 1) * 2^970: the least magnitude no float64 is nearest to
TwoTo54Less1 == <<1, 8, 0, 1, 4, 3, 9, 8, 5, 0, 9, 4, 8, 1, 9, 8, 3>>

\* The decimal ds / 10^e is below (2^54 - 1) * 2^970.  By the count of its
\* digits where that decides (10^308 < 2^1024 - 2^970 < 10^309), else by
\* the comparison of the two as integers, both times 10^e when e > 0.
WithinFloat64(ds, e) ==
    LET lead == Len(ds) - 1 - e
    IN  IF ds = <<>> \/ lead < 308 THEN TRUE
        ELSE IF lead > 308 THEN FALSE
        ELSE Less(Times(Numeral(ds), 0, Positive(0 - e)),
                  Times(TwoTo54Less1, 970, Positive(e)))

\* The decimal ds / 10^e is at most 2^-1075, half the least positive float64
RoundsToZero(ds, e) ==
    LET lead == Len(ds) - 1 - e
    IN  IF ds = <<>> \/ lead < -324 THEN TRUE
        ELSE IF lead > -324 THEN FALSE
        ELSE AtMost(Times(Numeral(ds), 1075, Positive(0 - e)),
                    Times(<<1>>, 0, Positive(e)))

\* The float64 q * 2^x (in the form a float64 has) is the one nearest to the
\* decimal ds / 10^e, the one with q even of two equally near.  With the
\* decimal, the float64 and the gap 2^x to the next float64 made the integers
\* dec, flt and gap (each times 4, times 10^e when e > 0 and times 2^(-x)
\* when x < 0): the decimal is within half a gap of the float64, and above
\* it within a quarter where the float64 below is half a gap away (q = 2^52).
NearestMagnitude(ds, e, q, x) ==
    LET dec == Times(Numeral(ds), 2 + Positive(0 - x), Positive(0 - e))
        flt == Times(q, 2 + Positive(x), Positive(e))
        gap == Times(<<1>>, 2 + Positive(x), Positive(e))
        above == Add(flt, Halve(gap))
        below == Add(dec, IF q = TwoTo52 /\ x > -1074 THEN Halve(Halve(gap))
                          ELSE Halve(gap))
    IN  /\ \/ Less(TwoTo52, q) /\ Less(q, TwoTo53) /\ x >= -1074 /\ x <= 971
           \/ q = TwoTo52 /\ x >= -1074 /\ x <= 971
           \/ q # <<>> /\ Less(q, TwoTo52) /\ x = -1074
        /\ Less(dec, above) \/ (dec = above /\ ~IsOdd(q))
        /\ Less(flt, below) \/ (flt = below /\ (~IsOdd(q) \/ q = TwoTo52))

\* v is the 64-bit IEEE double of the decimal +-ds / 10^e: the float64
\* nearest to it, zero when that is nearer, and none when it is an infinity
NearestFloat(neg, ds, e, v) ==
    LET signed == Len(v.s) > 0 /\ v.s[1] = "-"
        digits == IF signed THEN Tail(v.s) ELSE v.s
    IN  /\ v.k = "float"
        /\ IF v = FloatZero THEN RoundsToZero(ds, e)
           ELSE /\ signed = neg
                /\ digits # <<>> /\ IsDigits(digits) /\ digits[1] # "0"
                /\ NearestMagnitude(ds, e, Numeral(digits), v.n)

\* The value returned is the logical value of the node
ValueDecoded ==
    IF node.t = "d" THEN NearestFloat(node.n < 0, node.ds, node.e, result.v)
    ELSE result.v = ValueOf(node)

DecodedExactly ==
    /\ result.st = "ok"
    /\ result.err = NoErr
    /\ result.off = offset + Len(Encode(node))
    /\ ValueDecoded

\* C6, as claimed: for every buffer and offset at which a grammar-valid scalar
\* or text node (its payload ASCII) begins, consumeNext returns the node's
\* logical value and the offset one past the node's ";".
C6_AsClaimed ==
    (Done /\ call = "next" /\ ScalarAtOffset /\ IsASCII(node.s))
    => DecodedExactly

\* The number of the node is one its 64-bit kind holds
NumberInRange == node.t = "d" => WithinFloat64(node.ds, node.e)

\* C6, amended: the same, for a number within the range of its 64-bit kind
\* and for a text node in a buffer of ASCII bytes only (the text form of
\* the whole buffer then has every byte of the node at its index).
C6_ScalarDecoded ==
    (Done /\ call = "next" /\ ScalarAtOffset /\ NumberInRange
          /\ (node.t = "s" => IsASCII(data)))
    => DecodedExactly

C6_Witness ==
    /\ Done /\ call = "next" /\ variant = "embedded" /\ offset > 0
    /\ node = NStr(Hello)
    /\ IsASCII(data)
    /\ Len(data) > offset + Len(Encode(node))
    /\ result = Ok(StrV(Hello), offset + 12)

\* C7: failure is always reported as a value: a top-level consumeObject that
\* does not succeed returns offset -1 with the error of the consumer that
\* failed, and an error is returned exactly when the offset is -1.
C7_FailureIsAValue ==
    (Done /\ call = "object")
    => /\ result.st \in {"ok", "err"}
       /\ (result.err # NoErr) <=> (result.off = -1)

\* The decoded kind vk cannot be coerced to the field kind fk
Uncoercible(fk, vk) ==
    \/ fk \in {"int", "uint", "float"} /\ vk \in {"string", "nil", "bool"}
    \/ fk = "string" /\ vk # "string"

\* C8: when a key names a field and the decoded value's kind cannot be coerced
\* to the field's kind, consumeObject returns an error with offset -1; it
\* does not crash and does not assign to the field.
C8_MismatchStep ==
    (/\ pc = "loop"
     /\ Top.i < Top.length
     /\ KeyAt.st = "ok"
     /\ IsStruct(Top)
     /\ KeyAt.off < Len(data)
     /\ At(data, KeyAt.off) # "O"
     /\ consumeNext(data, KeyAt.off).st = "ok"
     /\ FieldValid(Top, KeyAt.v.s)
     /\ Uncoercible(dest[FieldOf(Top, KeyAt.v.s)].kind, consumeNext(data, KeyAt.off).v.k))
    => (pc' = "done" /\ result'.st = "err" /\ result'.off = -1 /\ dest' = dest)

C8_MismatchIsAnError == [][C8_MismatchStep]_vars

\* C9: a consumer that returns success returns an offset greater than its
\* starting offset and at most the buffer length; otherwise it fails (it
\* returns an error: it reads no byte outside the buffer).
C9_CursorInvariant ==
    Done => /\ result.st \in {"ok", "err"}
            /\ result.st = "ok" => (offset < result.off /\ result.off <= Len(data))

\* C10: when consumeObject returns success with offset r, the byte at r - 1 is
\* the "}" that closes the node begun at the starting offset: r is not in the
\* middle of the node, whatever the count field and the brace bytes are.
C10_ClosingBrace ==
    (Done /\ call = "object" /\ result.st = "ok")
    => /\ result.off <= Len(data)
       /\ At(data, result.off - 1) = "}"
       /\ variant = "whole" => result.off = Len(data)

====
